---- MODULE Spec2Model ----
(***************************************************************************)
(* Model of claude-api-logger/server.py: an HTTP proxy that forwards each  *)
(* request to a fixed upstream API and appends one JSON line per exchange  *)
(* to a per-day log file.                                                  *)
(*                                                                         *)
(* Text is modelled as a run-length encoded string: a sequence of runs     *)
(* [c |-> character, n |-> repetitions] with n >= 1 and no two adjacent    *)
(* runs of the same character, so that the 500-character cut of the        *)
(* previews is computed on strings of realistic length.                    *)
(***************************************************************************)
EXTENDS Integers, Sequences, FiniteSets, TLC

(***************************************************************************)
(* Bounds of the model                                                     *)
(***************************************************************************)
\* number of inbound requests the clients send in one behaviour
MaxRequests == 2
\* longest list of content blocks in the request bodies of ParseSpec
MaxBlocks == 3
\* the local calendar dates the clock runs through: 1..MaxDay
MaxDay == 2

(***************************************************************************)
(* Program constants                                                       *)
(***************************************************************************)
\* content[:500], " ".join(text_parts)[:500], response.text[:500]
PreviewLen == 500
\* self.send_response(502)
BadGateway == 502
\* os.environ.get("PROJECT_NAME", "default")
PROJECT_NAME == "default"

(***************************************************************************)
(* Strings                                                                 *)
(***************************************************************************)
EmptyStr == <<>>

Run(c, n) == IF n <= 0 THEN <<>> ELSE <<[c |-> c, n |-> n]>>

RECURSIVE StrLen(_)
StrLen(s) == IF s = <<>> THEN 0 ELSE Head(s).n + StrLen(Tail(s))

\* a + b
Cat(a, b) ==
    IF a = <<>> THEN b
    ELSE IF b = <<>> THEN a
    ELSE IF a[Len(a)].c = b[1].c
         THEN SubSeq(a, 1, Len(a) - 1)
              \o <<[c |-> b[1].c, n |-> a[Len(a)].n + b[1].n]>>
              \o Tail(b)
         ELSE a \o b

\* the string of the characters cs, one run of length 1 per character
RECURSIVE Lit(_)
Lit(cs) == IF cs = <<>> THEN <<>> ELSE Cat(Run(Head(cs), 1), Lit(Tail(cs)))

\* s[:k]
RECURSIVE Slice(_, _)
Slice(s, k) ==
    IF k <= 0 \/ s = <<>> THEN <<>>
    ELSE IF Head(s).n >= k THEN <<[c |-> Head(s).c, n |-> k]>>
    ELSE Cat(<<Head(s)>>, Slice(Tail(s), k - Head(s).n))

\* sep.join(parts)
RECURSIVE Join(_, _)
Join(sep, parts) ==
    IF parts = <<>> THEN <<>>
    ELSE IF Len(parts) = 1 THEN parts[1]
    ELSE Cat(Cat(parts[1], sep), Join(sep, Tail(parts)))

(***************************************************************************)
(* JSON values, as json.loads / response.json() return them                *)
(***************************************************************************)
JNull == [t |-> "null"]
JBool(b) == [t |-> "bool", b |-> b]
JNum(n) == [t |-> "num", n |-> n]
JStr(s) == [t |-> "str", s |-> s]
JList(l) == [t |-> "list", l |-> l]
JObj(o) == [t |-> "obj", o |-> o]

\* bool(j): the truth value Python gives the value in `if j:`
Truthy(j) ==
    CASE j.t = "null" -> FALSE
      [] j.t = "bool" -> j.b
      [] j.t = "num" -> j.n # 0
      [] j.t = "str" -> j.s # <<>>
      [] j.t = "list" -> j.l # <<>>
      [] j.t = "obj" -> DOMAIN j.o # {}

\* d.get(key, default) on a dict d
Get(d, key, default) == IF key \in DOMAIN d.o THEN d.o[key] ELSE default

\* d.get(key): None when the key is missing
GetOrNone(d, key) == Get(d, key, JNull)

TextType == JStr(Lit(<<"t", "e", "x", "t">>))

\* [c.get("text", "") for c in content if c.get("type") == "text"]:
\* c.get raises AttributeError on a block that is not a dict
RECURSIVE TextParts(_)
TextParts(l) ==
    IF l = <<>> THEN [exc |-> "none", parts |-> <<>>]
    ELSE IF Head(l).t # "obj" THEN [exc |-> "AttributeError", parts |-> <<>>]
    ELSE LET rest == TextParts(Tail(l))
             mine == IF GetOrNone(Head(l), "type") = TextType
                     THEN <<Get(Head(l), "text", JStr(EmptyStr))>>
                     ELSE <<>>
         IN  IF rest.exc # "none" THEN rest
             ELSE [exc |-> "none", parts |-> mine \o rest.parts]

\* " ".join(text_parts)[:500]: join raises TypeError on an item that is not a str
JoinPreview(parts) ==
    IF \E i \in 1..Len(parts) : parts[i].t # "str"
    THEN [exc |-> "TypeError", s |-> EmptyStr]
    ELSE [exc |-> "none",
          s |-> Slice(Join(Run(" ", 1), [i \in 1..Len(parts) |-> parts[i].s]), PreviewLen)]

(***************************************************************************)
(* Request bodies.  A body is b"" (kind "empty"), bytes that are not UTF-8 *)
(* text (kind "undecodable"), text that is not JSON (kind "notjson") or    *)
(* the text of the JSON document val (kind "json").                        *)
(***************************************************************************)
EmptyBody == [kind |-> "empty"]
NotJsonBody == [kind |-> "notjson"]
UndecodableBody == [kind |-> "undecodable"]
JsonBody(val) == [kind |-> "json", val |-> val]

\* json.loads(request_body)
json_loads(body) ==
    CASE body.kind = "json" -> [exc |-> "none", val |-> body.val]
      [] body.kind = "undecodable" -> [exc |-> "UnicodeDecodeError", val |-> JNull]
      [] OTHER -> [exc |-> "JSONDecodeError", val |-> JNull]

\* messages[0]: the first message instead of the last
FirstOf(messages) ==
    CASE messages.t = "list" -> [exc |-> "none", val |-> messages.l[1]]
      [] messages.t = "str" -> [exc |-> "none", val |-> JStr(Run(messages.s[1].c, 1))]
      [] messages.t = "obj" -> [exc |-> "KeyError", val |-> JNull]
      [] OTHER -> [exc |-> "TypeError", val |-> JNull]

\* messages[-1], evaluated when messages is truthy
LastOf(messages) ==
    CASE messages.t = "list" -> [exc |-> "none", val |-> messages.l[Len(messages.l)]]
      [] messages.t = "str" ->
            [exc |-> "none",
             val |-> JStr(Run(messages.s[Len(messages.s)].c, 1))]
      [] messages.t = "obj" -> [exc |-> "KeyError", val |-> JNull]
      [] OTHER -> [exc |-> "TypeError", val |-> JNull]

Extracted(exc, model, preview) ==
    [exc |-> exc, model |-> model, prompt_preview |-> preview]

\* the preview of the content of the last message
ContentPreview(content, model) ==
    IF content.t = "str" THEN Extracted("none", model, Slice(content.s, PreviewLen))
    ELSE IF content.t = "list"
         THEN LET tp == TextParts(content.l)
                  jp == JoinPreview(tp.parts)
              IN  IF tp.exc # "none" THEN Extracted(tp.exc, model, EmptyStr)
                  ELSE Extracted(jp.exc, model, jp.s)
         ELSE Extracted("none", model, EmptyStr)

\* the parse with no except clause: json.JSONDecodeError leaves the block too
ParseRequestNoCatch(body) ==
    IF body.kind = "notjson"
    THEN Extracted("JSONDecodeError", JStr(EmptyStr), EmptyStr)
    ELSE Extracted("none", JStr(EmptyStr), EmptyStr)

\* "Parse request for logging": exc is the exception that leaves the block
\* ("none" when it completes; json.JSONDecodeError is caught and passed)
ParseRequest(body) ==
    LET none == Extracted("none", JStr(EmptyStr), EmptyStr)
        ld == json_loads(body)
    IN  IF body.kind = "empty" THEN none
        ELSE IF ld.exc = "JSONDecodeError" THEN none
        ELSE IF ld.exc # "none" THEN Extracted(ld.exc, JStr(EmptyStr), EmptyStr)
        ELSE IF ld.val.t # "obj" THEN Extracted("AttributeError", JStr(EmptyStr), EmptyStr)
        ELSE LET model == Get(ld.val, "model", JStr(EmptyStr))
                 messages == Get(ld.val, "messages", JList(<<>>))
                 last == LastOf(messages)
             IN  IF ~Truthy(messages) THEN Extracted("none", model, EmptyStr)
                 ELSE IF last.exc # "none" THEN Extracted(last.exc, model, EmptyStr)
                 ELSE IF last.val.t # "obj" THEN Extracted("AttributeError", model, EmptyStr)
                 ELSE ContentPreview(Get(last.val, "content", JStr(EmptyStr)), model)

(***************************************************************************)
(* Upstream responses.  content is the body (text: response.text, json:    *)
(* what response.json() gives, ok = FALSE when it raises).                 *)
(***************************************************************************)
Response(status, headers, content) ==
    [status_code |-> status, headers |-> headers, content |-> content]

Parsed(preview, inTok, outTok) ==
    [response_preview |-> preview, input_tokens |-> inTok, output_tokens |-> outTok]

\* response.text[:500] if response.text else ""
RawPreview(response) == Slice(response.content.text, PreviewLen)

\* "Parse response for logging": the assignments made before an exception
\* are kept, the bare except only sets response_preview
ParseResponse(response) ==
    LET zero == JNum(0)
        raw == RawPreview(response)
        js == response.content.json
    IN  IF ~js.ok THEN Parsed(raw, zero, zero)
        ELSE IF js.val.t # "obj" THEN Parsed(raw, zero, zero)
        ELSE LET usage == Get(js.val, "usage", JObj(<<>>))
                 content == Get(js.val, "content", JList(<<>>))
             IN  IF usage.t # "obj" THEN Parsed(raw, zero, zero)
                 ELSE LET inTok == Get(usage, "input_tokens", zero)
                          outTok == Get(usage, "output_tokens", zero)
                      IN  IF Truthy(content) /\ content.t = "list"
                          THEN LET tp == TextParts(content.l)
                                   jp == JoinPreview(tp.parts)
                               IN  IF tp.exc # "none" \/ jp.exc # "none"
                                   THEN Parsed(raw, inTok, outTok)
                                   ELSE Parsed(jp.s, inTok, outTok)
                          ELSE Parsed(EmptyStr, inTok, outTok)

(***************************************************************************)
(* Headers.  A header name is its letters in lower case (name) and the way *)
(* it is capitalised on the wire (caps: "lower", "upper" or "mixed", as in  *)
(* content-length, CONTENT-LENGTH, Content-Length).  A value is a str      *)
(* (text, and whether every character of it is in Latin-1) or the int the  *)
(* handler passes for Content-Length.                                      *)
(***************************************************************************)
Key(name, caps) == [name |-> name, caps |-> caps]

\* key.lower()
Lower(key) == Key(key.name, "lower")

StrValue(text, latin1) == [text |-> text, latin1 |-> latin1]
IntValue(n) == [int |-> n]

Header(key, value) == [key |-> key, value |-> value]

ContentType == Key("content-type", "mixed")
ContentLength == Key("content-length", "mixed")
ApplicationJson == StrValue("application/json", TRUE)

\* ("transfer-encoding", "content-encoding", "content-length")
NotRelayed ==
    {Key("transfer-encoding", "lower"), Key("content-encoding", "lower"),
     Key("content-length", "lower")}

\* the status line; the headers send_response adds after it
StatusLine(code) == [status |-> code]
ServerHeader == Header(Key("server", "mixed"), StrValue("BaseHTTP", TRUE))
DateHeader == Header(Key("date", "mixed"), StrValue("now", TRUE))

\* a send_response that starts a new buffer
send_response_fresh(buffer, code) == <<StatusLine(code), ServerHeader, DateHeader>>

\* self.send_response(code): the status line and the Server and Date headers
\* are appended to _headers_buffer, nothing is written yet
send_response(buffer, code) == buffer \o <<StatusLine(code), ServerHeader, DateHeader>>

\* ("%s: %s\r\n" % (key, value)).encode("latin-1", "strict") succeeds
Encodable(value) == "int" \in DOMAIN value \/ value.latin1

\* self.send_header(key, value) with a value that can be encoded
send_header(buffer, key, value) == Append(buffer, Header(key, value))

\* the loop over response.headers.items(): exc is the exception that ends it
RECURSIVE SendHeaders(_, _)
SendHeaders(buffer, items) ==
    IF items = <<>> THEN [exc |-> "none", buffer |-> buffer]
    ELSE IF Lower(Head(items).key) \in NotRelayed THEN SendHeaders(buffer, Tail(items))
    ELSE IF ~Encodable(Head(items).value)
         THEN [exc |-> "UnicodeEncodeError", buffer |-> buffer]
         ELSE SendHeaders(send_header(buffer, Head(items).key, Head(items).value),
                          Tail(items))

\* what the caller reads when end_headers() has flushed buffer and body has
\* been written: the first line is the status line, the lines up to the
\* blank line are the header lines
Received(buffer, body) ==
    [status_code |-> buffer[1].status, headers |-> Tail(buffer), body |-> body]

(***************************************************************************)
(* Inputs: the requests the clients send and what the upstream answers     *)
(***************************************************************************)
ANTHROPIC_API_URL == "https://api.anthropic.com"

HealthPath == "/health"
MessagesPath == "/v1/messages"

ModelName == Lit(<<"m">>)

\* {"model": "m", "messages": [{"role": "user", "content": "aaa...a"}]},
\* the content longer than the preview
ChatBody ==
    JsonBody(JObj([model |-> JStr(ModelName),
                   messages |-> JList(<<JObj([role |-> JStr(Lit(<<"u">>)),
                                              content |-> JStr(Run("a", PreviewLen + 100))])>>)]))

\* [1]: valid JSON, not an object
ListBody == JsonBody(JList(<<JNum(1)>>))

\* the bodies of the POST requests
RequestBodies == <<NotJsonBody, ChatBody, ListBody>>

Request(method, path, body) == [method |-> method, path |-> path, body |-> body]

InboundRequests ==
    {Request("GET", p, EmptyBody) : p \in {HealthPath, MessagesPath}}
    \cup {Request("POST", MessagesPath, RequestBodies[i]) : i \in 1..Len(RequestBodies)}

\* a Messages API answer with usage and one text block
MessageContent ==
    [text |-> Cat(Run("{", 1), Run("j", 80)),
     json |-> [ok |-> TRUE,
               val |-> JObj([usage |-> JObj([input_tokens |-> JNum(12),
                                             output_tokens |-> JNum(34)]),
                             content |-> JList(<<JObj([type |-> TextType,
                                                       text |-> JStr(Lit(<<"h", "i">>))])>>)])]]

\* a body that is not JSON (an HTML error page), longer than the preview
PlainContent == [text |-> Run("x", PreviewLen + 100), json |-> [ok |-> FALSE]]

\* the headers of an answer: its type and the length of its body on the wire
UpstreamHeaders(type) ==
    <<Header(ContentType, StrValue(type, TRUE)),
      Header(ContentLength, StrValue("57", TRUE))>>

UpstreamResponses ==
    {Response(200, UpstreamHeaders("application/json"), MessageContent),
     Response(500, UpstreamHeaders("text/html"), PlainContent)}

\* what client.request raises when the upstream cannot be reached or read
UpstreamErrors == {"ConnectError", "ReadTimeout"}

\* how the append of log_request ends: the line is written, open() raises
\* OSError, or the write raises OSError after part of the line
LogOutcomes == {"ok", "open_error", "write_error"}

(***************************************************************************)
(* State                                                                   *)
(***************************************************************************)
VARIABLES
    requests,   \* the inbound requests, in the order they reached the listen queue
    pc,         \* pc[r]: where the handling of request r stands
    extracted,  \* extracted[r]: model and prompt_preview of the request parse
    calls,      \* calls[r]: the upstream calls made for request r
    responses,  \* responses[r]: what the upstream call of r returned
    entry,      \* entry[r]: the log_entry dict of r, while its handler runs
    sent,       \* sent[r]: the response sent to the caller of r
    files,      \* files[d]: content of api-log-<d>.jsonl, for the files that exist
    appends,    \* history: the calls of log_request, in the order they were made
    overlap,    \* history: some request arrived while an earlier one was unfinished
    today       \* the local calendar date

vars == <<requests, pc, extracted, calls, responses, entry, sent, files, appends, overlap, today>>

None == [none |-> TRUE]

Ids == 1..Len(requests)

\* the handler of r is between its first and its last statement
InHandler(r) == pc[r] \in {"upstream", "log", "send"}

\* HTTPServer.serve_forever handles one request at a time, on one thread
Busy == \E r \in Ids : InHandler(r)

Init ==
    /\ requests = <<>>
    /\ pc = <<>>
    /\ extracted = <<>>
    /\ calls = <<>>
    /\ responses = <<>>
    /\ entry = <<>>
    /\ sent = <<>>
    /\ files = <<>>
    /\ appends = <<>>
    /\ overlap = FALSE
    /\ today = 1

(***************************************************************************)
(* Log writer                                                              *)
(***************************************************************************)
\* the file of the date the process started on
get_log_file_at_start == CHOOSE d \in 1..MaxDay : \A e \in 1..MaxDay : d <= e

\* get_log_file: the file of the date the clock shows when it is called
get_log_file == today

\* what the file holds of a line whose write raised: a part of the JSON
\* text of data, without the newline
Partial(data) == [req |-> data.req]

\* f.write(json.dumps(data)): the line is left without its newline
WriteLineNoNewline(content, data, whole) ==
    Append(content, [data |-> Partial(data), newline |-> FALSE])

\* f.write(json.dumps(data) + "\n") on a file opened with mode "a"
WriteLine(content, data, whole) ==
    Append(content, [data |-> IF whole THEN data ELSE Partial(data), newline |-> whole])

\* open(log_file, "w"): the content is dropped
OpenTruncate(fs, log_file) == <<>>

\* open(log_file, "a"): the content so far, empty when the file is created
OpenAppend(fs, log_file) == IF log_file \in DOMAIN fs THEN fs[log_file] ELSE <<>>

\* the files after log_request(data) ends with the given outcome
log_request(fs, data, outcome) ==
    LET log_file == get_log_file
    IN  IF outcome = "open_error" THEN fs
        ELSE [d \in DOMAIN fs \cup {log_file} |->
                 IF d = log_file
                 THEN WriteLine(OpenAppend(fs, log_file), data, outcome = "ok")
                 ELSE fs[d]]

(***************************************************************************)
(* Forwarding handler                                                      *)
(***************************************************************************)
HealthReply ==
    Received(send_header(send_response(<<>>, 200), ContentType, ApplicationJson),
             [status |-> "ok", project |-> PROJECT_NAME])

\* the head the except branch of proxy_request adds to _headers_buffer
ErrorHead(buffer) ==
    send_header(send_response(buffer, BadGateway), ContentType, ApplicationJson)

\* the except branch of proxy_request: 502 and {"error": str(e)}
ErrorReply(e) == Received(ErrorHead(<<>>), [error |-> e])

\* the head of the relayed response: the upstream's status, its headers but
\* the three that are not relayed, and the length of response.content
RelayHead(response) ==
    send_header(SendHeaders(send_response(<<>>, response.status_code),
                            response.headers).buffer,
                ContentLength, IntValue(StrLen(response.content.text)))

\* the upstream's status, headers and body
Relay(response) == Received(RelayHead(response), response.content)

\* the head that is flushed for response.  When send_header raises on a
\* value, the except branch adds its own head to the unsent buffer.
SentHead(response) ==
    LET sh == SendHeaders(send_response(<<>>, response.status_code), response.headers)
    IN  IF sh.exc = "none" THEN RelayHead(response) ELSE ErrorHead(sh.buffer)

\* the body that is written after that head
SentBody(response) ==
    LET sh == SendHeaders(send_response(<<>>, response.status_code), response.headers)
    IN  IF sh.exc = "none" THEN response.content ELSE [error |-> sh.exc]

\* the log_entry dict.  timestamp is the date of datetime.now(); its time of
\* day and duration_ms are left out, no step depends on them.  req is not a
\* key of the dict: it tags the entry with the request it was built for.
LogEntry(r, ex, response, parsed) ==
    [req |-> r,
     timestamp |-> today,
     project |-> PROJECT_NAME,
     model |-> ex.model,
     prompt_preview |-> ex.prompt_preview,
     response_preview |-> parsed.response_preview,
     input_tokens |-> parsed.input_tokens,
     output_tokens |-> parsed.output_tokens,
     status_code |-> response.status_code,
     path |-> requests[r].path]

\* a client sends a request; it waits until the server thread takes it
Arrive(req) ==
    /\ Len(requests) < MaxRequests
    /\ requests' = Append(requests, req)
    /\ pc' = Append(pc, "queued")
    /\ extracted' = Append(extracted, None)
    /\ calls' = Append(calls, <<>>)
    /\ responses' = Append(responses, None)
    /\ entry' = Append(entry, None)
    /\ sent' = Append(sent, None)
    /\ overlap' = (overlap \/ \E q \in Ids : pc[q] \notin {"done", "aborted"})
    /\ UNCHANGED <<files, appends, today>>

\* the server thread takes request r, the first of the listen queue, when it
\* handles no other request
Accepts(r) ==
    /\ pc[r] = "queued"
    /\ \A q \in 1..(r - 1) : pc[q] # "queued"
    /\ ~Busy

\* a health check that is also written to the log
HealthLogged(r) ==
    /\ Accepts(r)
    /\ requests[r].method = "GET" /\ requests[r].path = HealthPath
    /\ sent' = [sent EXCEPT ![r] = HealthReply]
    /\ pc' = [pc EXCEPT ![r] = "done"]
    /\ files' = log_request(files, [req |-> r, timestamp |-> today, path |-> HealthPath], "ok")
    /\ UNCHANGED <<requests, extracted, calls, responses, entry, appends, overlap, today>>

\* do_GET on /health
Health(r) ==
    /\ Accepts(r)
    /\ requests[r].method = "GET" /\ requests[r].path = HealthPath
    /\ sent' = [sent EXCEPT ![r] = HealthReply]
    /\ pc' = [pc EXCEPT ![r] = "done"]
    /\ UNCHANGED <<requests, extracted, calls, responses, entry, files, appends, overlap, today>>

\* proxy_request up to the upstream call: read the body, parse it for
\* logging, build the url and issue client.request.  An exception of the
\* parse leaves the handler: nothing is forwarded, logged or answered.
ProxyStart(r) ==
    /\ Accepts(r)
    /\ ~(requests[r].method = "GET" /\ requests[r].path = HealthPath)
    /\ LET ex == ParseRequest(requests[r].body)
       IN  IF ex.exc # "none"
           THEN /\ pc' = [pc EXCEPT ![r] = "aborted"]
                /\ UNCHANGED <<extracted, calls>>
           ELSE /\ pc' = [pc EXCEPT ![r] = "upstream"]
                /\ extracted' = [extracted EXCEPT ![r] = ex]
                /\ calls' = [calls EXCEPT ![r] =
                       Append(@, [method |-> requests[r].method,
                                  base |-> ANTHROPIC_API_URL,
                                  path |-> requests[r].path,
                                  content |-> requests[r].body])]
    /\ UNCHANGED <<requests, responses, entry, sent, files, appends, overlap, today>>

\* a handler that answers the caller as soon as client.request returns
UpstreamReturnSendFirst(r, response) ==
    /\ pc[r] = "upstream"
    /\ responses' = [responses EXCEPT ![r] = response]
    /\ entry' = [entry EXCEPT ![r] =
           LogEntry(r, extracted[r], response, ParseResponse(response))]
    /\ sent' = [sent EXCEPT ![r] = Relay(response)]
    /\ pc' = [pc EXCEPT ![r] = "log"]
    /\ UNCHANGED <<requests, extracted, calls, files, appends, overlap, today>>

\* client.request returns: parse the response and build log_entry
UpstreamReturn(r, response) ==
    /\ pc[r] = "upstream"
    /\ responses' = [responses EXCEPT ![r] = response]
    /\ entry' = [entry EXCEPT ![r] =
           LogEntry(r, extracted[r], response, ParseResponse(response))]
    /\ pc' = [pc EXCEPT ![r] = "log"]
    /\ UNCHANGED <<requests, extracted, calls, sent, files, appends, overlap, today>>

\* client.request raises: the except branch answers 502
UpstreamRaise(r, e) ==
    /\ pc[r] = "upstream"
    /\ responses' = [responses EXCEPT ![r] = [raised |-> e]]
    /\ sent' = [sent EXCEPT ![r] = ErrorReply(e)]
    /\ pc' = [pc EXCEPT ![r] = "done"]
    /\ UNCHANGED <<requests, extracted, calls, entry, files, appends, overlap, today>>

\* log_request(log_entry); an OSError of open or write is caught by the
\* except branch of proxy_request, which answers 502
LogRequest(r, outcome) ==
    /\ pc[r] = "log"
    /\ files' = log_request(files, entry[r], outcome)
    /\ appends' = Append(appends,
           IF outcome = "open_error"
           THEN [req |-> r, outcome |-> outcome]
           ELSE [req |-> r, outcome |-> outcome, file |-> get_log_file])
    /\ IF outcome = "ok"
       THEN /\ pc' = [pc EXCEPT ![r] = "send"]
            /\ UNCHANGED <<sent, entry>>
       ELSE /\ pc' = [pc EXCEPT ![r] = "done"]
            /\ sent' = [sent EXCEPT ![r] = ErrorReply("OSError")]
            /\ entry' = [entry EXCEPT ![r] = None]
    /\ UNCHANGED <<requests, extracted, calls, responses, overlap, today>>

\* "Send response back to client"
SendResponse(r) ==
    /\ pc[r] = "send"
    /\ sent' = [sent EXCEPT ![r] = Received(SentHead(responses[r]), SentBody(responses[r]))]
    /\ entry' = [entry EXCEPT ![r] = None]
    /\ pc' = [pc EXCEPT ![r] = "done"]
    /\ UNCHANGED <<requests, extracted, calls, responses, files, appends, overlap, today>>

\* the caller's connection breaks while the response is written: at the
\* flush of the head (stage "head", nothing reaches the caller) or at the
\* write of the body (stage "body", the head has reached the caller).  The
\* except branch writes to the same connection, raises again and the
\* exception leaves the handler.
SendFails(r, stage) ==
    /\ pc[r] = "send"
    /\ sent' = [sent EXCEPT ![r] =
           IF stage = "head" THEN None
           ELSE Received(SentHead(responses[r]), [cut |-> TRUE])]
    /\ entry' = [entry EXCEPT ![r] = None]
    /\ pc' = [pc EXCEPT ![r] = "aborted"]
    /\ UNCHANGED <<requests, extracted, calls, responses, files, appends, overlap, today>>

\* local midnight passes
Tick ==
    /\ today < MaxDay
    /\ today' = today + 1
    /\ UNCHANGED <<requests, pc, extracted, calls, responses, entry, sent, files, appends, overlap>>

Next ==
    \/ \E req \in InboundRequests : Arrive(req)
    \/ \E r \in Ids : Health(r)
    \/ \E r \in Ids : ProxyStart(r)
    \/ \E r \in Ids, response \in UpstreamResponses : UpstreamReturn(r, response)
    \/ \E r \in Ids, e \in UpstreamErrors : UpstreamRaise(r, e)
    \/ \E r \in Ids, outcome \in LogOutcomes : LogRequest(r, outcome)
    \/ \E r \in Ids : SendResponse(r)
    \/ Tick

\* Spec: several requests, whose callers stay connected until they are answered
Spec == Init /\ [][Next]_vars

(***************************************************************************)
(* Vocabulary of the properties                                            *)
(***************************************************************************)
\* request r is handled by proxy_request (every GET or POST but GET /health)
Proxied(r) == ~(requests[r].method = "GET" /\ requests[r].path = HealthPath)

\* the handler of r has ended: by returning, or by an exception leaving it
Finished(r) == pc[r] \in {"done", "aborted"}

\* the upstream call of r returned a response / raised
Answered(r) == "status_code" \in DOMAIN responses[r]
Failed(r) == "raised" \in DOMAIN responses[r]

\* the positions <<d, i>> of the log lines written for request r
LinesOf(r) ==
    {p \in UNION {{<<d, i>> : i \in 1..Len(files[d])} : d \in DOMAIN files} :
        files[p[1]][p[2]].data.req = r}

LineAt(p) == files[p[1]][p[2]]

\* the LogEntry records of r in the log: its complete lines
EntriesOf(r) == {p \in LinesOf(r) : LineAt(p).newline}

\* the calls of log_request made for r / those that raised OSError
AppendsOf(r) == {i \in 1..Len(appends) : appends[i].req = r}
DiskError(r) == \E i \in AppendsOf(r) : appends[i].outcome # "ok"

\* the call a of log_request wrote (a whole line or a part) to the file of day d
WroteTo(d, a) == a.outcome # "open_error" /\ a.file = d

(***************************************************************************)
(* C1: for every GET or POST request that reaches proxy_request, exactly   *)
(* one LogEntry is in the log when the handler has finished, whether the   *)
(* upstream call returned or raised.  Stated for the requests whose        *)
(* upstream call ended and whose append, if any, met no disk error.        *)
(***************************************************************************)
C1_ExactlyOneLogEntry ==
    \A r \in Ids :
        (Proxied(r) /\ Finished(r) /\ (Answered(r) \/ Failed(r)) /\ ~DiskError(r))
            => Cardinality(EntriesOf(r)) = 1

(***************************************************************************)
(* C2: when the upstream call raises, the caller receives 502 with the     *)
(* body {"error": <message>} and a LogEntry of the exchange is in the log  *)
(* with status_code 502, input_tokens 0, output_tokens 0, an empty         *)
(* response preview and the prompt preview extracted from the request.     *)
(***************************************************************************)
C2_FailureAnsweredAndLogged ==
    \A r \in Ids :
        (pc[r] = "done" /\ Failed(r)) =>
            /\ sent[r] = ErrorReply(responses[r].raised)
            /\ \E p \in EntriesOf(r) :
                  /\ LineAt(p).data.status_code = BadGateway
                  /\ LineAt(p).data.input_tokens = JNum(0)
                  /\ LineAt(p).data.output_tokens = JNum(0)
                  /\ LineAt(p).data.response_preview = EmptyStr
                  /\ LineAt(p).data.prompt_preview
                         = ParseRequest(requests[r].body).prompt_preview

(***************************************************************************)
(* C3: when the upstream answers request r with status S and body B, the   *)
(* caller of r receives status S and body B.                               *)
(***************************************************************************)
C3_ResponseRelayed ==
    \A r \in Ids :
        (pc[r] = "done" /\ Answered(r)) => sent[r] = Relay(responses[r])

(***************************************************************************)
(* C4: when log_request raises after the upstream answered, the caller     *)
(* still receives the upstream's status and body, not a 502.               *)
(***************************************************************************)
C4_LogFailureContained ==
    \A r \in Ids :
        (pc[r] = "done" /\ Answered(r) /\ DiskError(r)) =>
            /\ sent[r] = Relay(responses[r])
            /\ sent[r].status_code # BadGateway

(***************************************************************************)
(* C5: a request body that is not valid JSON does not abort the request:   *)
(* the handler does not end by an exception, the raw body is forwarded to  *)
(* the upstream in one call, the LogEntry has model "" and prompt_preview  *)
(* "", and when the upstream answers and the entry is appended the         *)
(* upstream's response is relayed.                                         *)
(***************************************************************************)
NotJson(r) == Proxied(r) /\ requests[r].body.kind = "notjson"

C5_MalformedBodyForwarded ==
    \A r \in Ids :
        NotJson(r) =>
            /\ pc[r] # "aborted"
            /\ pc[r] # "queued" =>
                  /\ Len(calls[r]) = 1
                  /\ calls[r][1].content = requests[r].body
                  /\ calls[r][1].method = requests[r].method
            /\ \A p \in EntriesOf(r) :
                  /\ LineAt(p).data.model = JStr(EmptyStr)
                  /\ LineAt(p).data.prompt_preview = EmptyStr
            /\ (pc[r] = "done" /\ Answered(r) /\ ~DiskError(r)) =>
                  /\ sent[r] = Relay(responses[r])
                  /\ Cardinality(EntriesOf(r)) = 1

C5_Witness ==
    \E r \in Ids :
        /\ NotJson(r) /\ pc[r] = "done" /\ Answered(r)
        /\ EntriesOf(r) # {}
        /\ sent[r] = Relay(responses[r])

(***************************************************************************)
(* C6: while the upstream call of one request has not returned, the        *)
(* request at the head of the listen queue can be taken by the server: a   *)
(* pending upstream call never blocks the handling of the other requests.  *)
(***************************************************************************)
HeadOfQueue(r) == pc[r] = "queued" /\ \A q \in 1..(r - 1) : pc[q] # "queued"

C6_OthersNotBlocked ==
    \A r1 \in Ids, r2 \in Ids :
        (pc[r1] = "upstream" /\ HeadOfQueue(r2)) =>
            ENABLED (Health(r2) \/ ProxyStart(r2))

(***************************************************************************)
(* C7: when two requests both get an upstream response and both append     *)
(* their LogEntry to the file of the same day, with no disk error and no   *)
(* other writer of that file, the file holds exactly two lines, each       *)
(* complete and each the log_entry of one of the two requests.             *)
(***************************************************************************)
\* r made one call of log_request, which wrote the file of day d
LoggedOn(r, d) ==
    /\ Cardinality(AppendsOf(r)) = 1
    /\ \A i \in AppendsOf(r) : appends[i].outcome = "ok" /\ appends[i].file = d

\* data is the log_entry built from request r and its upstream response,
\* whatever the time it was built at
IsEntryOf(r, data) ==
    /\ data.req = r
    /\ data = [LogEntry(r, ParseRequest(requests[r].body), responses[r],
                        ParseResponse(responses[r]))
                   EXCEPT !.timestamp = data.timestamp]

BothLogged(r1, r2, d) ==
    /\ r1 < r2
    /\ pc[r1] = "done" /\ pc[r2] = "done"
    /\ Answered(r1) /\ Answered(r2)
    /\ LoggedOn(r1, d) /\ LoggedOn(r2, d)
    /\ \A i \in 1..Len(appends) : WroteTo(d, appends[i]) => appends[i].req \in {r1, r2}

C7_TwoCompleteLines ==
    \A r1 \in Ids, r2 \in Ids, d \in 1..MaxDay :
        BothLogged(r1, r2, d) =>
            /\ d \in DOMAIN files
            /\ Len(files[d]) = 2
            /\ \A i \in 1..2 : files[d][i].newline
            /\ \E i \in 1..2 : IsEntryOf(r1, files[d][i].data)
            /\ \E i \in 1..2 : IsEntryOf(r2, files[d][i].data)

\* the second request arrived while the first was unfinished
C7_Witness ==
    /\ Len(requests) = 2
    /\ overlap
    /\ \E d \in 1..MaxDay : BothLogged(1, 2, d)

(***************************************************************************)
(* C8: the log is append-only: every step leaves every log file in place   *)
(* with its former content as a prefix of its new content, and the lines   *)
(* of a file are in the order the calls of log_request were made.          *)
(***************************************************************************)
WritersOf(d) ==
    LET Wrote(a) == WroteTo(d, a)
        ws == SelectSeq(appends, Wrote)
    IN  [i \in 1..Len(ws) |-> ws[i].req]

C8_AppendOnly ==
    /\ [][\A d \in DOMAIN files :
              /\ d \in DOMAIN files'
              /\ Len(files'[d]) >= Len(files[d])
              /\ SubSeq(files'[d], 1, Len(files[d])) = files[d]]_vars
    /\ [](\A d \in DOMAIN files :
              [i \in 1..Len(files[d]) |-> files[d][i].data.req] = WritersOf(d))

C8_Witness == \E d \in DOMAIN files : Len(files[d]) >= 2

(***************************************************************************)
(* C9: a write of the log goes to the file of the date the clock shows at  *)
(* the write (the file is created if missing): it adds one line to that    *)
(* file and leaves the file of every other date unchanged.                 *)
(***************************************************************************)
C9_FileOfWriteDate ==
    [][files' # files =>
          /\ today \in DOMAIN files'
          /\ files'[today] # OpenAppend(files, today)
          /\ Len(files'[today]) = Len(OpenAppend(files, today)) + 1
          /\ \A d \in DOMAIN files' \ {today} :
                d \in DOMAIN files /\ files'[d] = files[d]]_vars

\* a line was written after the date changed: the file of the first day
\* holds the line written before, the file of the new day the new line
C9_Witness ==
    /\ today = 2
    /\ 1 \in DOMAIN files /\ 2 \in DOMAIN files
    /\ Len(files[1]) = 1 /\ files[1][1].data.req = 1
    /\ Len(files[2]) = 1 /\ files[2][1].data.req = 2

(***************************************************************************)
(* C10: each request handled by proxy_request results in exactly one       *)
(* upstream call attempt: never two and never zero.                        *)
(***************************************************************************)
C10_ExactlyOneUpstreamCall ==
    \A r \in Ids :
        /\ Len(calls[r]) <= 1
        /\ (Proxied(r) /\ Finished(r)) => Len(calls[r]) = 1

(***************************************************************************)
(* C11: GET /health is answered 200 with {"status": "ok", "project":       *)
(* PROJECT_NAME}; handling it makes no upstream call and no log append:    *)
(* the step leaves the log files, the upstream calls and the calls of      *)
(* log_request unchanged.                                                  *)
(***************************************************************************)
IsHealth(r) == requests[r].method = "GET" /\ requests[r].path = HealthPath

C11_HealthTouchesNothing ==
    /\ [][\A r \in Ids :
              (IsHealth(r) /\ pc[r] = "queued" /\ pc'[r] # "queued") =>
                  /\ pc'[r] = "done"
                  /\ sent'[r] = HealthReply
                  /\ files' = files
                  /\ calls' = calls
                  /\ appends' = appends]_vars
    /\ [](\A r \in Ids :
              (IsHealth(r) /\ pc[r] = "done") =>
                  /\ sent[r] = HealthReply
                  /\ sent[r].status_code = 200
                  /\ calls[r] = <<>>
                  /\ LinesOf(r) = {}
                  /\ AppendsOf(r) = {})

\* a health check answered after another request wrote its log line
C11_Witness ==
    \E r \in Ids :
        /\ IsHealth(r) /\ pc[r] = "done" /\ sent[r] = HealthReply
        /\ \E q \in Ids : q < r /\ EntriesOf(q) # {}

(***************************************************************************)
(* C12: every request that reaches proxy_request gets an HTTP response:    *)
(* when its handler has ended, the relayed upstream response or the 502    *)
(* has been sent to the caller.                                            *)
(***************************************************************************)
Replied(r) == "status_code" \in DOMAIN sent[r]

C12_EveryRequestAnswered ==
    \A r \in Ids : (Proxied(r) /\ Finished(r)) => Replied(r)

(***************************************************************************)
(* The request parse on its own: ParseSpec starts with one POST request    *)
(* in the listen queue, its body drawn from RichBodies, and the handler    *)
(* reads and parses it (ProxyStart).                                       *)
(***************************************************************************)
Txt(cs) == JStr(Lit(cs))

TextBlock(s) == JObj([type |-> TextType, text |-> JStr(s)])
ImageBlock == JObj([type |-> Txt(<<"i", "m", "g">>), source |-> JNull])

\* the content blocks: text blocks, an image, a text block with no text
\* key, a text block whose text is a number, a block that is not an object
Blocks ==
    <<TextBlock(Lit(<<"a", "b">>)),
      TextBlock(Lit(<<"c", "d">>)),
      TextBlock(Run("b", PreviewLen - 200)),
      ImageBlock,
      JObj([type |-> TextType]),
      JObj([type |-> TextType, text |-> JNum(5)]),
      JNum(7)>>

BlockLists ==
    {[i \in DOMAIN ix |-> Blocks[ix[i]]] :
        ix \in UNION {[1..n -> 1..Len(Blocks)] : n \in 0..MaxBlocks}}

\* what the content of a message can be
Contents ==
    {JStr(EmptyStr), Txt(<<"a", "b">>), JStr(Run("a", PreviewLen)),
     JStr(Run("a", PreviewLen + 1)), JStr(Run("a", 2 * PreviewLen)),
     JStr(Cat(Run("a", PreviewLen - 1), Run("b", 5))),
     JNum(3), JNull, JBool(TRUE), JObj([text |-> Txt(<<"a">>)])}
    \cup {JList(l) : l \in BlockLists}

UserMsg(content) == JObj([role |-> Txt(<<"u">>), content |-> content])
OtherMsg == JObj([role |-> Txt(<<"a">>), content |-> Txt(<<"z", "z">>)])

\* the values of the messages key
MessageLists ==
    {JList(<<UserMsg(c)>>) : c \in Contents}
    \cup {JList(<<OtherMsg, UserMsg(c)>>) : c \in Contents}
    \cup {JList(<<>>), JList(<<JObj([role |-> Txt(<<"u">>)])>>), JList(<<OtherMsg, JNum(5)>>),
          Txt(<<"a", "b">>), JStr(EmptyStr), JNum(5), JNum(0), JNull,
          JObj([a |-> JNum(1)]), JObj(<<>>)}

RichBodies ==
    {JsonBody(JObj([model |-> JStr(ModelName), messages |-> m])) : m \in MessageLists}
    \cup {JsonBody(JObj([model |-> JStr(ModelName)])), JsonBody(JObj(<<>>)),
          JsonBody(JList(<<JNum(1)>>)), JsonBody(JNum(5)), JsonBody(JNull),
          JsonBody(Txt(<<"a">>)), NotJsonBody, UndecodableBody, EmptyBody}

InitParse ==
    /\ \E body \in RichBodies : requests = <<Request("POST", MessagesPath, body)>>
    /\ pc = <<"queued">>
    /\ extracted = <<None>>
    /\ calls = <<<<>>>>
    /\ responses = <<None>>
    /\ entry = <<None>>
    /\ sent = <<None>>
    /\ files = <<>>
    /\ appends = <<>>
    /\ overlap = FALSE
    /\ today = 1

NextParse == \E r \in Ids : ProxyStart(r)

ParseSpec == InitParse /\ [][NextParse]_vars

(***************************************************************************)
(* C13: the prompt preview                                                 *)
(***************************************************************************)
\* the i-th character of s
RECURSIVE CharAt(_, _)
CharAt(s, i) == IF i <= Head(s).n THEN Head(s).c ELSE CharAt(Tail(s), i - Head(s).n)

\* p is s cut to PreviewLen characters
IsCutOf(p, s) ==
    /\ StrLen(p) = (IF StrLen(s) < PreviewLen THEN StrLen(s) ELSE PreviewLen)
    /\ \A i \in 1..StrLen(p) : CharAt(p, i) = CharAt(s, i)

IsTextBlock(b) == b.t = "obj" /\ "type" \in DOMAIN b.o /\ b.o.type = TextType

\* the texts of the text blocks of l in order, one space between neighbours
RECURSIVE SpacedTexts(_, _)
SpacedTexts(l, first) ==
    IF l = <<>> THEN EmptyStr
    ELSE IF IsTextBlock(Head(l))
         THEN LET text == IF "text" \in DOMAIN Head(l).o /\ Head(l).o.text.t = "str"
                          THEN Head(l).o.text.s
                          ELSE EmptyStr
              IN  Cat(IF first THEN text ELSE Cat(Run(" ", 1), text),
                      SpacedTexts(Tail(l), FALSE))
         ELSE SpacedTexts(Tail(l), first)

\* the request body of r is a JSON object with a non-empty messages array
HasMessages(r) ==
    LET body == requests[r].body
    IN  /\ body.kind = "json" /\ body.val.t = "obj"
        /\ "messages" \in DOMAIN body.val.o
        /\ body.val.o.messages.t = "list" /\ body.val.o.messages.l # <<>>

LastMessage(r) ==
    LET l == requests[r].body.val.o.messages.l IN l[Len(l)]

\* the content of the last message of r ("" when it has none)
LastContent(r) ==
    IF LastMessage(r).t # "obj" THEN JNull
    ELSE IF "content" \in DOMAIN LastMessage(r).o THEN LastMessage(r).o.content
    ELSE JStr(EmptyStr)

ExampleBlocks == JList(<<Blocks[1], ImageBlock, Blocks[2]>>)

\* C13: once the request parse has completed, prompt_preview is at most 500
\* characters long; it is the string content of the last message cut to 500
\* characters, or the texts of the text blocks of its list content joined by
\* one space and then cut to 500 characters ([text 'ab', image, text 'cd']
\* gives 'ab cd'), and it is empty for any other content and for no messages.
C13_PromptPreview ==
    \A r \in Ids : pc[r] = "upstream" =>
        LET p == extracted[r].prompt_preview
        IN  /\ StrLen(p) <= PreviewLen
            /\ IF HasMessages(r)
               THEN LET c == LastContent(r)
                    IN  /\ CASE c.t = "str" -> IsCutOf(p, c.s)
                              [] c.t = "list" -> IsCutOf(p, SpacedTexts(c.l, TRUE))
                              [] OTHER -> p = EmptyStr
                        /\ c = ExampleBlocks => p = Lit(<<"a", "b", " ", "c", "d">>)
                        /\ c = JStr(Run("a", 2 * PreviewLen)) => p = Run("a", PreviewLen)
               ELSE p = EmptyStr

\* the last of two messages holds [text, image, text] whose joined texts are
\* longer than 500 characters, and the preview is their first 500 characters
C13_Witness ==
    \E r \in Ids :
        /\ pc[r] = "upstream" /\ HasMessages(r)
        /\ Len(requests[r].body.val.o.messages.l) = 2
        /\ LastContent(r).t = "list" /\ Len(LastContent(r).l) = 3
        /\ IsTextBlock(LastContent(r).l[1]) /\ ~IsTextBlock(LastContent(r).l[2])
        /\ StrLen(SpacedTexts(LastContent(r).l, TRUE)) > PreviewLen
        /\ StrLen(extracted[r].prompt_preview) = PreviewLen

(***************************************************************************)
(* C14: bodies of an unexpected shape                                      *)
(***************************************************************************)
\* the request body of r is bytes that are not text, or JSON whose top level
\* is not an object, whose messages is not a list, whose last message is not
\* an object, or one of whose content blocks is not an object
UnexpectedShape(r) ==
    LET body == requests[r].body
    IN  \/ body.kind = "undecodable"
        \/ /\ body.kind = "json"
           /\ \/ body.val.t # "obj"
              \/ /\ "messages" \in DOMAIN body.val.o
                 /\ body.val.o.messages.t \notin {"list", "null"}
                 /\ Truthy(body.val.o.messages)
              \/ /\ HasMessages(r)
                 /\ \/ LastMessage(r).t # "obj"
                    \/ /\ LastContent(r).t = "list"
                       /\ \E i \in 1..Len(LastContent(r).l) : LastContent(r).l[i].t # "obj"

\* C14: a request whose body has an unexpected shape or is not text is
\* handled like a parse failure: once the handler has taken it, its body has
\* been forwarded unchanged in one upstream call and the logging fields of
\* the request are empty.
C14_UnexpectedShapeForwarded ==
    \A r \in Ids : (UnexpectedShape(r) /\ pc[r] # "queued") =>
        /\ pc[r] # "aborted"
        /\ Len(calls[r]) = 1 /\ calls[r][1].content = requests[r].body
        /\ extracted[r] = Extracted("none", JStr(EmptyStr), EmptyStr)

(***************************************************************************)
(* One exchange on its own: ExchangeSpec starts with one request for       *)
(* proxy_request in the listen queue, the upstream answers with any of     *)
(* RichResponses, and the caller's connection can break during the send.   *)
(***************************************************************************)
\* the body of an answer that is the JSON document val, n + 1 characters long
JsonContent(val, n) ==
    [text |-> Cat(Run("{", 1), Run("j", n)), json |-> [ok |-> TRUE, val |-> val]]

Usage(inTok, outTok) == JObj([input_tokens |-> inTok, output_tokens |-> outTok])

HiBlock == TextBlock(Lit(<<"h", "i">>))

\* the JSON documents the upstream answers with
RichDocuments ==
    {JList(<<JNum(1)>>),
     JObj(<<>>),
     JObj([usage |-> JNum(5), content |-> JList(<<HiBlock>>)]),
     JObj([usage |-> JNull, content |-> JList(<<HiBlock>>)]),
     JObj([usage |-> Usage(JNum(12), JNum(34)), content |-> JList(<<JNum(1)>>)]),
     JObj([usage |-> Usage(JNum(12), JNum(34)), content |-> JList(<<Blocks[6]>>)]),
     JObj([usage |-> JObj([input_tokens |-> JNum(12)]), content |-> JList(<<HiBlock>>)]),
     JObj([usage |-> Usage(JNull, JNum(0 - 3)), content |-> JList(<<HiBlock>>)]),
     JObj([usage |-> Usage(Txt(<<"7">>), JNum(34)), content |-> JList(<<HiBlock>>)]),
     JObj([usage |-> Usage(JNum(12), JNum(34)), content |-> Txt(<<"h", "i">>)]),
     JObj([usage |-> Usage(JNum(12), JNum(34)),
           content |-> JList(<<Blocks[3], ImageBlock, Blocks[3]>>)])}

RichContents ==
    {MessageContent, PlainContent, [text |-> EmptyStr, json |-> [ok |-> FALSE]]}
    \cup {JsonContent(val, n) : val \in RichDocuments, n \in {80, PreviewLen + 100}}

\* longest list of upstream headers in the responses of RichResponses
MaxHeaders == 2

\* upstream headers in the spellings upstreams use, one with a value that
\* has a character outside Latin-1
HeaderPool ==
    <<Header(ContentType, ApplicationJson),
      Header(Key("transfer-encoding", "mixed"), StrValue("chunked", TRUE)),
      Header(Key("content-encoding", "upper"), StrValue("gzip", TRUE)),
      Header(ContentLength, StrValue("57", TRUE)),
      Header(Key("content-length", "lower"), StrValue("57", TRUE)),
      Header(Key("x-request-id", "lower"), StrValue("req_1", TRUE)),
      Header(Key("x-note", "mixed"), StrValue("note", FALSE))>>

HeaderLists ==
    {[i \in DOMAIN ix |-> HeaderPool[ix[i]]] :
        ix \in UNION {[1..n -> 1..Len(HeaderPool)] : n \in 0..MaxHeaders}}

RichResponses ==
    {Response(status, UpstreamHeaders("application/json"), content) :
        status \in {200, 500}, content \in RichContents}
    \cup {Response(200, headers, MessageContent) : headers \in HeaderLists}

InitExchange ==
    /\ \E req \in {Request("POST", MessagesPath, ChatBody),
                   Request("GET", MessagesPath, EmptyBody)} : requests = <<req>>
    /\ pc = <<"queued">>
    /\ extracted = <<None>>
    /\ calls = <<<<>>>>
    /\ responses = <<None>>
    /\ entry = <<None>>
    /\ sent = <<None>>
    /\ files = <<>>
    /\ appends = <<>>
    /\ overlap = FALSE
    /\ today = 1

NextExchange ==
    \/ \E r \in Ids : ProxyStart(r)
    \/ \E r \in Ids, response \in RichResponses : UpstreamReturn(r, response)
    \/ \E r \in Ids, e \in UpstreamErrors : UpstreamRaise(r, e)
    \/ \E r \in Ids, outcome \in LogOutcomes : LogRequest(r, outcome)
    \/ \E r \in Ids : SendResponse(r)
    \/ \E r \in Ids, stage \in {"head", "body"} : SendFails(r, stage)
    \/ Tick

ExchangeSpec == InitExchange /\ [][NextExchange]_vars

(***************************************************************************)
(* C15: a response the logging fields cannot be extracted from             *)
(***************************************************************************)
\* the body of response is not JSON, or its top level is not an object, or
\* its usage is not an object, or one of its content blocks is not an object
ExtractionFails(response) ==
    LET js == response.content.json
    IN  \/ ~js.ok
        \/ js.val.t # "obj"
        \/ "usage" \in DOMAIN js.val.o /\ js.val.o.usage.t # "obj"
        \/ /\ "content" \in DOMAIN js.val.o
           /\ js.val.o.content.t = "list"
           /\ \E i \in 1..Len(js.val.o.content.l) : js.val.o.content.l[i].t # "obj"

\* C15: when the extraction of the logging fields from the upstream response
\* fails, the LogEntry has the raw response text cut to 500 characters as
\* response_preview and 0 as input_tokens and as output_tokens.
C15_FailedExtractionDefaults ==
    \A r \in Ids : \A p \in EntriesOf(r) :
        ExtractionFails(responses[r]) =>
            /\ IsCutOf(LineAt(p).data.response_preview, responses[r].content.text)
            /\ LineAt(p).data.input_tokens = JNum(0)
            /\ LineAt(p).data.output_tokens = JNum(0)

(***************************************************************************)
(* C17: the token counts of a LogEntry                                     *)
(***************************************************************************)
IsCount(j) == j.t = "num" /\ j.n >= 0

\* the value of usage.<key> of the response, JNull when there is none
UsageField(response, key) ==
    LET js == response.content.json
    IN  IF js.ok /\ js.val.t = "obj" /\ "usage" \in DOMAIN js.val.o
           /\ js.val.o.usage.t = "obj" /\ key \in DOMAIN js.val.o.usage.o
        THEN js.val.o.usage.o[key]
        ELSE JNull

\* C17: in every LogEntry written, input_tokens and output_tokens are
\* integers >= 0, equal to usage.input_tokens and usage.output_tokens of the
\* response when these are present and 0 when they are absent.
C17_TokenCounts ==
    \A r \in Ids : \A p \in EntriesOf(r) :
        /\ IsCount(LineAt(p).data.input_tokens)
        /\ IsCount(LineAt(p).data.output_tokens)
        /\ LineAt(p).data.input_tokens =
               (IF UsageField(responses[r], "input_tokens") = JNull THEN JNum(0)
                ELSE UsageField(responses[r], "input_tokens"))
        /\ LineAt(p).data.output_tokens =
               (IF UsageField(responses[r], "output_tokens") = JNull THEN JNum(0)
                ELSE UsageField(responses[r], "output_tokens"))

(***************************************************************************)
(* C16: the order of the steps of one exchange                             *)
(***************************************************************************)
\* C16: the upstream call of an exchange is made when its request has been
\* parsed and nothing else has happened for it; its LogEntry is appended
\* after its single upstream call has returned and before anything is sent;
\* the first bytes of the upstream's response go to the caller in a later
\* step, when that LogEntry is in the log.
C16_StepOrder ==
    /\ [][\A r \in Ids :
              (calls[r] = <<>> /\ calls'[r] # <<>>) =>
                  /\ extracted'[r] # None /\ Len(calls'[r]) = 1
                  /\ responses[r] = None /\ AppendsOf(r) = {} /\ sent[r] = None]_vars
    /\ [][\A r \in Ids :
              (EntriesOf(r) = {} /\ EntriesOf(r)' # {}) =>
                  /\ Answered(r) /\ Len(calls[r]) = 1 /\ calls'[r] = calls[r]
                  /\ sent[r] = None /\ sent'[r] = None]_vars
    /\ [][\A r \in Ids :
              (Answered(r)' /\ ~DiskError(r)' /\ sent[r] = None /\ sent'[r] # None) =>
                  /\ EntriesOf(r) # {} /\ files' = files
                  /\ Len(calls[r]) = 1 /\ calls' = calls]_vars

\* a successful exchange: one upstream call, the entry logged, the response relayed
C16_Witness ==
    \E r \in Ids :
        /\ pc[r] = "done" /\ Answered(r) /\ Len(calls[r]) = 1
        /\ EntriesOf(r) # {} /\ sent[r] = Relay(responses[r])

(***************************************************************************)
(* C18: the headers of the relayed response                                *)
(***************************************************************************)
\* the name is one of Transfer-Encoding, Content-Encoding, Content-Length,
\* in any spelling
HopName(key) ==
    key.name \in {"transfer-encoding", "content-encoding", "content-length"}

\* the positions of the Content-Length headers among the header lines h
ContentLengthsOf(h) ==
    {j \in DOMAIN h : "key" \in DOMAIN h[j] /\ h[j].key.name = "content-length"}

\* C18: the response the caller of an answered exchange gets carries every
\* upstream header but Transfer-Encoding, Content-Encoding and
\* Content-Length, none of these three from the upstream, and exactly one
\* Content-Length header, whose value is the length of the body written.
C18_RelayedHeaders ==
    \A r \in Ids : (pc[r] = "done" /\ Answered(r) /\ ~DiskError(r)) =>
        LET up == responses[r].headers
            h == sent[r].headers
        IN  /\ \A i \in DOMAIN up : ~HopName(up[i].key) => \E j \in DOMAIN h : h[j] = up[i]
            /\ \A j \in DOMAIN h :
                   ("key" \in DOMAIN h[j] /\ HopName(h[j].key)) => j \in ContentLengthsOf(h)
            /\ Cardinality(ContentLengthsOf(h)) = 1
            /\ \A j \in ContentLengthsOf(h) :
                   /\ sent[r].body = responses[r].content
                   /\ h[j].value = IntValue(StrLen(sent[r].body.text))

(***************************************************************************)
(* C19: the status code in the log and the one the caller receives         *)
(***************************************************************************)
\* C19: when an exchange has a LogEntry and its caller has received a status
\* line, the status_code of the LogEntry is the status the caller received,
\* whether or not the send failed after the append.
C19_LoggedStatusIsSentStatus ==
    \A r \in Ids : \A p \in EntriesOf(r) :
        Replied(r) => LineAt(p).data.status_code = sent[r].status_code

\* the send of a logged exchange fell into the error branch, which wrote
\* its {"error": ...} body to the caller
C19_Witness ==
    \E r \in Ids :
        /\ pc[r] = "done" /\ EntriesOf(r) # {} /\ Replied(r)
        /\ "error" \in DOMAIN sent[r].body
        /\ \E j \in DOMAIN sent[r].headers : sent[r].headers[j] = StatusLine(BadGateway)
        /\ \A p \in EntriesOf(r) : LineAt(p).data.status_code = sent[r].status_code

(***************************************************************************)
(* C20: the date of an entry and the date of its file                      *)
(***************************************************************************)
\* C20: every LogEntry stored in the file of day d has a timestamp of day d.
C20_TimestampInFileOfItsDate ==
    \A d \in DOMAIN files : \A i \in 1..Len(files[d]) :
        files[d][i].newline => files[d][i].data.timestamp = d

====
